---- MODULE Spec2Model ----
(***************************************************************************)
(* NYC Fleet Monitor: the battery-risk classifier and the emergency        *)
(* incident lifecycle of App.tsx and EmergencyDashboard.tsx.               *)
(*                                                                         *)
(* Temperatures are whole degrees Celsius.  Every threshold of the code is *)
(* an integer compared with > , so a real temperature t behaves exactly as *)
(* the integer ceiling of t.                                               *)
(*                                                                         *)
(* React 18 scheduling (README "Technology Stack"):                        *)
(*  - a click handler is a discrete event: its state updates are rendered  *)
(*    and the passive effects of that render are flushed before the next   *)
(*    event is handled (pc walks idle -> sync -> effects -> idle);         *)
(*  - state updates made by the passive effect or by the interval callback *)
(*    are rendered by a later task, so another task can run before the     *)
(*    render and sees the list captured by the last render;                *)
(*  - the effects of a render are always flushed before the next render.   *)
(* Date.now() has millisecond granularity: two reads may return the same   *)
(* value, in one task or in two tasks that follow each other.  Two clicks  *)
(* of the user are more than a millisecond apart.  The interval fires      *)
(* 30000 ms after it was set: the render and the effect flush that were    *)
(* queued before that run first, so a tick finds neither of them pending.  *)
(***************************************************************************)
EXTENDS Integers, Sequences, FiniteSets, TLC

VARIABLES
    mockVehicles,        \* module-level vehicle array (generateVehicles)
    emergencyIncidents,  \* useState: the list with every queued updater applied
    rendered,            \* emergencyIncidents as captured by the last render
    scanList,            \* emergencyIncidents as captured by the last effect run
    intervals,           \* the interval timers that are set and not cleared, each with the
                         \* list its callback captured and the time it was set
    intervalAt,          \* Date.now() when the last effect run set its interval
    clickAt,             \* Date.now() at the last click
    effectPending,       \* a render changed the effect's dependency; the effect has not run yet
    dirty,               \* setEmergencyIncidents was called since the last render
    pc,                  \* position of the event loop: idle, sync, effects; unmounted
    now,                 \* Date.now()
    scansInRow,          \* scans run since the update of the last focus/respond/resolve click
                         \* was applied by its render: 0, 1, 2 = two or more (history)
    probe,               \* last record built by the classifier/lifecycle probes
    console              \* the entries written with console.log, as a set

vars == <<mockVehicles, emergencyIncidents, rendered, scanList, intervals, intervalAt,
          clickAt, effectPending, dirty, pc, now, scansInRow, probe, console>>

----------------------------------------------------------------------------
(* Bounds of the model *)

NumVehicles == 2
MaxIncidents == 3
MaxTime == 3
DashLen == 6
MaxStatusLog == 3

(* EMERGENCY_THRESHOLDS *)
CRITICAL_TEMP == 47
HIGH_TEMP == 43
CRITICAL_BATTERY == 15

----------------------------------------------------------------------------
(* Risk classifier *)

RiskLevels == {"low", "moderate", "high", "critical"}

\* requiresEmergencyResponse with the charge threshold taken inclusively
requiresEmergencyResponse_Inclusive(temperature, batteryLevel) ==
    \/ temperature > CRITICAL_TEMP
    \/ (temperature > HIGH_TEMP /\ batteryLevel <= CRITICAL_BATTERY)

\* requiresEmergencyResponse of generateBatteryHealth
requiresEmergencyResponse(temperature, batteryLevel) ==
    \/ temperature > CRITICAL_TEMP
    \/ (temperature > HIGH_TEMP /\ batteryLevel < CRITICAL_BATTERY)

\* the chain with the thresholds the constants were raised from (45, 40, 20, 800)
riskLevel_OldThresholds(temperature, batteryLevel, cycleCount) ==
    IF \/ temperature > 45
       \/ (temperature > 40 /\ batteryLevel < 20)
       \/ cycleCount > 800
    THEN "critical"
    ELSE IF \/ temperature > HIGH_TEMP
            \/ (batteryLevel < 25 /\ temperature > 38)
            \/ cycleCount > 700
    THEN "high"
    ELSE IF \/ temperature > 38
            \/ batteryLevel < 30
            \/ cycleCount > 500
    THEN "moderate"
    ELSE "low"

\* the chain with the comparison of the low-charge rule turned round (temperature < 38)
riskLevel_ColdBattery(temperature, batteryLevel, cycleCount) ==
    IF \/ temperature > CRITICAL_TEMP
       \/ (temperature > HIGH_TEMP /\ batteryLevel < CRITICAL_BATTERY)
       \/ cycleCount > 900
    THEN "critical"
    ELSE IF \/ temperature > HIGH_TEMP
            \/ (batteryLevel < 25 /\ temperature < 38)
            \/ cycleCount > 700
    THEN "high"
    ELSE IF \/ temperature > 38
            \/ batteryLevel < 30
            \/ cycleCount > 500
    THEN "moderate"
    ELSE "low"

\* the chain without the low-charge branch of the critical rule
riskLevel_NoLowChargeRule(temperature, batteryLevel, cycleCount) ==
    IF \/ temperature > CRITICAL_TEMP
       \/ cycleCount > 900
    THEN "critical"
    ELSE IF \/ temperature > HIGH_TEMP
            \/ (batteryLevel < 25 /\ temperature > 38)
            \/ cycleCount > 700
    THEN "high"
    ELSE IF \/ temperature > 38
            \/ batteryLevel < 30
            \/ cycleCount > 500
    THEN "moderate"
    ELSE "low"

\* the if / else-if chain of generateBatteryHealth
riskLevel(temperature, batteryLevel, cycleCount) ==
    IF \/ temperature > CRITICAL_TEMP
       \/ (temperature > HIGH_TEMP /\ batteryLevel < CRITICAL_BATTERY)
       \/ cycleCount > 900
    THEN "critical"
    ELSE IF \/ temperature > HIGH_TEMP
            \/ (batteryLevel < 25 /\ temperature > 38)
            \/ cycleCount > 700
    THEN "high"
    ELSE IF \/ temperature > 38
            \/ batteryLevel < 30
            \/ cycleCount > 500
    THEN "moderate"
    ELSE "low"

\* generateBatteryHealth; the temperature drawn from Math.random() is a parameter
generateBatteryHealth(batteryLevel, cycleCount, temperature) ==
    [riskLevel |-> riskLevel(temperature, batteryLevel, cycleCount),
     temperature |-> temperature,
     cycleCount |-> cycleCount,
     requiresEmergencyResponse |-> requiresEmergencyResponse(temperature, batteryLevel)]

\* src/App.tsx, the if / else-if chain of its generateBatteryHealth: voltageStability,
\* drawn from Math.random() like the temperature, takes part in every rule.
\* voltageStability is in whole percent: every rule compares it with < and an
\* integer, so a real value behaves exactly as its integer floor
App_riskLevel(temperature, voltageStability, batteryLevel, cycleCount) ==
    IF \/ temperature > 45
       \/ voltageStability < 87
       \/ (batteryLevel < 20 /\ temperature > 40)
       \/ cycleCount > 800
    THEN "critical"
    ELSE IF \/ temperature > 40
            \/ voltageStability < 90
            \/ (batteryLevel < 30 /\ temperature > 35)
            \/ cycleCount > 500
    THEN "high"
    ELSE IF \/ temperature > 35
            \/ voltageStability < 95
            \/ cycleCount > 300
    THEN "moderate"
    ELSE "low"

\* src/App.tsx, generateBatteryHealth; the two draws of Math.random() are parameters
App_generateBatteryHealth(batteryLevel, cycleCount, temperature, voltageStability) ==
    [riskLevel |-> App_riskLevel(temperature, voltageStability, batteryLevel, cycleCount),
     temperature |-> temperature,
     cycleCount |-> cycleCount,
     voltageStability |-> voltageStability]

----------------------------------------------------------------------------
(* Vehicle synthesis *)

\* draws of Math.random() for one vehicle, a sample of what the synthesizer can give:
\* 20 <= temperature < 50, batteryLevel = floor(20 + r*r*80), cycleCount = floor(r*1000)
GenSamples ==
    { [location |-> "timesSquare", batteryLevel |-> 99, cycleCount |-> 100, temperature |-> 30],
      [location |-> "downtown",    batteryLevel |-> 20, cycleCount |-> 100, temperature |-> 48],
      [location |-> "timesSquare", batteryLevel |-> 64, cycleCount |-> 950, temperature |-> 49],
      [location |-> "centralPark", batteryLevel |-> 20, cycleCount |-> 600, temperature |-> 45] }

\* one vehicle of generateVehicles
makeVehicle(i, location, batteryLevel, cycleCount, temperature) ==
    [id |-> i,
     location |-> location,
     batteryLevel |-> batteryLevel,
     batteryHealth |-> generateBatteryHealth(batteryLevel, cycleCount, temperature)]

\* generateVehicles(count): the draws of every array the loop can build
generateVehicles(count) == [1..count -> GenSamples]

vehiclesOf(f) ==
    [i \in DOMAIN f |-> makeVehicle(i, f[i].location, f[i].batteryLevel,
                                    f[i].cycleCount, f[i].temperature)]

----------------------------------------------------------------------------
(* Incidents *)

NoDetails == [k \in {} |-> 0]

\* generateEmergencyIncident with temperature and batteryLevel read from each other's field
generateEmergencyIncident_SwappedFields(vehicle, t) ==
    [id |-> <<t, vehicle.id>>,
     vehicleId |-> vehicle.id,
     timestamp |-> t,
     location |-> vehicle.location,
     temperature |-> vehicle.batteryLevel,
     batteryLevel |-> vehicle.batteryHealth.temperature,
     riskLevel |-> vehicle.batteryHealth.riskLevel,
     status |-> "pending",
     responseDetails |-> NoDetails]

\* generateEmergencyIncident
generateEmergencyIncident(vehicle, t) ==
    [id |-> <<t, vehicle.id>>,
     vehicleId |-> vehicle.id,
     timestamp |-> t,
     location |-> vehicle.location,
     temperature |-> vehicle.batteryHealth.temperature,
     batteryLevel |-> vehicle.batteryLevel,
     riskLevel |-> vehicle.batteryHealth.riskLevel,
     status |-> "pending",
     responseDetails |-> NoDetails]

\* { ...incident.responseDetails, [key]: t }
withDetail(details, key, t) ==
    [k \in (DOMAIN details) \cup {key} |-> IF k = key THEN t ELSE details[k]]

\* handleRespond: the incident handed to onUpdateIncident
handleRespond(incident, t) ==
    [incident EXCEPT !.status = "responded",
                     !.responseDetails = withDetail(incident.responseDetails, "respondedAt", t)]

\* handleResolve writing responseDetails without the spread of the old ones
handleResolve_DropsDetails(incident, t) ==
    [incident EXCEPT !.status = "resolved",
                     !.responseDetails = [resolvedAt |-> t]]

\* handleResolve: the incident handed to onUpdateIncident
handleResolve(incident, t) ==
    [incident EXCEPT !.status = "resolved",
                     !.responseDetails = withDetail(incident.responseDetails, "resolvedAt", t)]

\* onUpdateIncident matching on vehicleId instead of id
onUpdateIncident_ByVehicle(prev, updatedIncident) ==
    [i \in 1..Len(prev) |->
        IF prev[i].vehicleId = updatedIncident.vehicleId THEN updatedIncident ELSE prev[i]]

\* onUpdateIncident that removes an incident once it is resolved
onUpdateIncident_DropResolved(prev, updatedIncident) ==
    IF updatedIncident.status = "resolved"
    THEN SelectSeq(prev, LAMBDA incident : incident.id # updatedIncident.id)
    ELSE [i \in 1..Len(prev) |->
             IF prev[i].id = updatedIncident.id THEN updatedIncident ELSE prev[i]]

\* onUpdateIncident: prev.map(incident => incident.id === updated.id ? updated : incident)
onUpdateIncident(prev, updatedIncident) ==
    [i \in 1..Len(prev) |-> IF prev[i].id = updatedIncident.id THEN updatedIncident ELSE prev[i]]

\* the test of focusOnVehicle and dangerousVehicles: status pending or responded
hasActiveIncident(list, vehicleId) ==
    \E i \in 1..Len(list) :
        /\ list[i].vehicleId = vehicleId
        /\ (list[i].status = "pending" \/ list[i].status = "responded")

\* the test of checkForEmergencies looking for responded incidents only
hasUnresolvedIncident_RespondedOnly(list, vehicleId) ==
    \E i \in 1..Len(list) :
        /\ list[i].vehicleId = vehicleId
        /\ list[i].status = "responded"

\* the test of checkForEmergencies counting resolved incidents as well
hasUnresolvedIncident_AnyStatus(list, vehicleId) ==
    \E i \in 1..Len(list) : list[i].vehicleId = vehicleId

\* the test of checkForEmergencies: status !== 'resolved'
hasUnresolvedIncident(list, vehicleId) ==
    \E i \in 1..Len(list) :
        /\ list[i].vehicleId = vehicleId
        /\ list[i].status # "resolved"

\* dangerousVehicles with HIGH_TEMP as the threshold
dangerousVehicles_HighTemp(vehicles, list) ==
    { v \in 1..Len(vehicles) :
        /\ vehicles[v].batteryHealth.temperature > HIGH_TEMP
        /\ ~hasActiveIncident(list, vehicles[v].id) }

\* dangerousVehicles (useMemo over the rendered list)
dangerousVehicles(vehicles, list) ==
    { v \in 1..Len(vehicles) :
        /\ vehicles[v].batteryHealth.temperature > CRITICAL_TEMP
        /\ ~hasActiveIncident(list, vehicles[v].id) }

\* mockVehicles.forEach of checkForEmergencies, from vehicle k on: every append is
\* setEmergencyIncidents(prev => [...prev, newIncident]); the test reads the captured list
RECURSIVE scanFrom(_, _, _, _, _)
scanFrom(k, vehicles, captured, prev, t) ==
    IF k > Len(vehicles) THEN prev
    ELSE IF /\ vehicles[k].batteryHealth.requiresEmergencyResponse
            /\ ~hasUnresolvedIncident(captured, vehicles[k].id)
         THEN scanFrom(k + 1, vehicles, captured,
                       Append(prev, generateEmergencyIncident(vehicles[k], t)), t)
         ELSE scanFrom(k + 1, vehicles, captured, prev, t)

\* checkForEmergencies walking the vehicles from the last to the first
checkForEmergencies_Reversed(vehicles, captured, prev, t) ==
    LET all == scanFrom(1, vehicles, captured, prev, t)
        added == SubSeq(all, Len(prev) + 1, Len(all))
    IN  prev \o [i \in 1..Len(added) |-> added[Len(added) + 1 - i]]

checkForEmergencies(vehicles, captured, prev, t) ==
    scanFrom(1, vehicles, captured, prev, t)

\* the console.log calls of checkForEmergencies for one new incident: the emergency
\* alert, and the fire-department alert when temperature > CRITICAL_TEMP
alertLog(vehicle, t) ==
    LET newIncident == generateEmergencyIncident(vehicle, t)
    IN  {[event |-> "EMERGENCY ALERT", timestamp |-> t, incidentId |-> newIncident.id,
          temperature |-> vehicle.batteryHealth.temperature]}
        \cup
        (IF vehicle.batteryHealth.temperature > CRITICAL_TEMP
         THEN {[event |-> "ALERTING FIRE DEPARTMENT", incidentId |-> newIncident.id,
                temperature |-> vehicle.batteryHealth.temperature]}
         ELSE {})

\* every console.log of one run of checkForEmergencies
checkForEmergenciesLog(vehicles, captured, t) ==
    UNION { alertLog(vehicles[k], t) :
              k \in { j \in 1..Len(vehicles) :
                        /\ vehicles[j].batteryHealth.requiresEmergencyResponse
                        /\ ~hasUnresolvedIncident(captured, vehicles[j].id) } }

\* the console.log of onUpdateIncident
statusLog(updatedIncident, t) ==
    [event |-> "status updated", timestamp |-> t, incidentId |-> updatedIncident.id,
     status |-> updatedIncident.status]

----------------------------------------------------------------------------
(* The application: App mounted, EmergencyDashboard wired to onUpdateIncident *)

NoProbe == [op |-> "none"]

Init ==
    /\ mockVehicles \in { vehiclesOf(f) : f \in generateVehicles(NumVehicles) }
    /\ emergencyIncidents = <<>>
    /\ rendered = <<>>
    /\ scanList = <<>>
    /\ intervals = {}
    /\ intervalAt = 0
    /\ clickAt = 0
    /\ effectPending = TRUE
    /\ dirty = FALSE
    /\ pc = "idle"
    /\ now = 0
    /\ scansInRow = 0
    /\ probe = NoProbe
    /\ console = {}

\* the timer held by the const interval of the last effect run, the one its cleanup clears
lastInterval == [list |-> scanList, at |-> intervalAt]

\* the effect without the clearInterval of its cleanup
EffectRun_NoCleanup ==
    /\ effectPending
    /\ LET next == checkForEmergencies(mockVehicles, rendered, emergencyIncidents, now)
       IN  /\ Len(next) <= MaxIncidents
           /\ emergencyIncidents' = next
           /\ dirty' = (dirty \/ Len(next) > Len(emergencyIncidents))
    /\ scanList' = rendered
    /\ intervals' = intervals \cup {[list |-> rendered, at |-> now]}
    /\ intervalAt' = now
    /\ effectPending' = FALSE
    /\ pc' = IF pc = "effects" THEN "idle" ELSE pc
    /\ scansInRow' = (IF pc = "sync" THEN 0 ELSE IF scansInRow = 0 THEN 1 ELSE 2)
    /\ console' = console \cup checkForEmergenciesLog(mockVehicles, rendered, now)
    /\ UNCHANGED <<mockVehicles, rendered, clickAt, now, probe>>

\* the effect scanning with the list of the effect run before it instead of the list
\* of its own render
EffectRun_StaleList ==
    /\ effectPending
    /\ LET next == checkForEmergencies(mockVehicles, scanList, emergencyIncidents, now)
       IN  /\ Len(next) <= MaxIncidents
           /\ emergencyIncidents' = next
           /\ dirty' = (dirty \/ Len(next) > Len(emergencyIncidents))
    /\ scanList' = rendered
    /\ intervals' = (intervals \ {lastInterval}) \cup {[list |-> rendered, at |-> now]}
    /\ intervalAt' = now
    /\ effectPending' = FALSE
    /\ pc' = IF pc = "effects" THEN "idle" ELSE pc
    /\ scansInRow' = (IF pc = "sync" THEN 0 ELSE IF scansInRow = 0 THEN 1 ELSE 2)
    /\ console' = console \cup checkForEmergenciesLog(mockVehicles, scanList, now)
    /\ UNCHANGED <<mockVehicles, rendered, clickAt, now, probe>>

\* useEffect(..., [emergencyIncidents]): cleanup of the previous run, setInterval,
\* and the initial checkForEmergencies() over the list this render captured.
\* At pc = "sync" this is the flush of an earlier render's effect, ahead of the
\* render that applies the click's updater: the click's update follows this scan
EffectRun ==
    /\ effectPending
    /\ LET next == checkForEmergencies(mockVehicles, rendered, emergencyIncidents, now)
       IN  /\ Len(next) <= MaxIncidents
           /\ emergencyIncidents' = next
           /\ dirty' = (dirty \/ Len(next) > Len(emergencyIncidents))
    /\ scanList' = rendered
    /\ intervals' = (intervals \ {lastInterval}) \cup {[list |-> rendered, at |-> now]}
    /\ intervalAt' = now
    /\ effectPending' = FALSE
    /\ pc' = IF pc = "effects" THEN "idle" ELSE pc
    /\ scansInRow' = (IF pc = "sync" THEN 0 ELSE IF scansInRow = 0 THEN 1 ELSE 2)
    /\ console' = console \cup checkForEmergenciesLog(mockVehicles, rendered, now)
    /\ UNCHANGED <<mockVehicles, rendered, clickAt, now, probe>>

\* the interval callback: checkForEmergencies of the effect run that set the interval;
\* a timer that was not cleared keeps firing after the component is gone
TimerTick ==
    /\ pc \in {"idle", "unmounted"}
    /\ ~dirty
    /\ ~effectPending
    /\ \E interval \in intervals :
           /\ now > interval.at
           /\ LET next == checkForEmergencies(mockVehicles, interval.list,
                                              emergencyIncidents, now)
              IN  /\ Len(next) <= MaxIncidents
                  /\ emergencyIncidents' = next
                  /\ dirty' = (dirty \/ Len(next) > Len(emergencyIncidents))
           /\ console' = console \cup checkForEmergenciesLog(mockVehicles, interval.list, now)
    /\ scansInRow' = (IF scansInRow = 0 THEN 1 ELSE 2)
    /\ UNCHANGED <<mockVehicles, rendered, scanList, intervals, intervalAt, clickAt,
                   effectPending, pc, now, probe>>

\* a render of App: the closures of this render capture the current list
Render ==
    /\ pc \in {"idle", "sync"}
    /\ ~effectPending
    /\ (dirty \/ pc = "sync")
    /\ rendered' = emergencyIncidents
    /\ effectPending' = dirty
    /\ dirty' = FALSE
    /\ pc' = IF pc = "sync" /\ dirty THEN "effects" ELSE "idle"
    /\ UNCHANGED <<console, mockVehicles, emergencyIncidents, scanList, intervals, intervalAt, clickAt,
                   now, scansInRow, probe>>

\* focusOnVehicle that clears the emergency flag of the vehicle it opens an incident for
FocusOnVehicle_ClearsFlag(v) ==
    /\ pc = "idle"
    /\ now > clickAt
    /\ v \in dangerousVehicles(mockVehicles, rendered)
    /\ Len(emergencyIncidents) < MaxIncidents
    /\ IF ~hasActiveIncident(rendered, mockVehicles[v].id)
       THEN /\ emergencyIncidents' =
                  Append(emergencyIncidents, generateEmergencyIncident(mockVehicles[v], now))
            /\ dirty' = TRUE
            /\ mockVehicles' =
                  [mockVehicles EXCEPT ![v].batteryHealth.requiresEmergencyResponse = FALSE]
       ELSE UNCHANGED <<emergencyIncidents, dirty, mockVehicles>>
    /\ pc' = "sync"
    /\ clickAt' = now
    /\ scansInRow' = 0
    /\ UNCHANGED <<console, rendered, scanList, intervals, intervalAt, effectPending,
                   now, probe>>

\* focusOnVehicle, called by a button of the danger-zone panel
FocusOnVehicle(v) ==
    /\ pc = "idle"
    /\ now > clickAt
    /\ v \in dangerousVehicles(mockVehicles, rendered)
    /\ Len(emergencyIncidents) < MaxIncidents
    /\ IF ~hasActiveIncident(rendered, mockVehicles[v].id)
       THEN /\ emergencyIncidents' =
                  Append(emergencyIncidents, generateEmergencyIncident(mockVehicles[v], now))
            /\ dirty' = TRUE
       ELSE UNCHANGED <<emergencyIncidents, dirty>>
    /\ pc' = "sync"
    /\ clickAt' = now
    /\ scansInRow' = 0
    /\ UNCHANGED <<console, mockVehicles, rendered, scanList, intervals, intervalAt, effectPending,
                   now, probe>>

\* "Mark Responded", offered for the incidents rendered as pending
HandleRespond(i) ==
    /\ pc = "idle"
    /\ now > clickAt
    /\ i \in 1..Len(rendered)
    /\ rendered[i].status = "pending"
    /\ emergencyIncidents' = onUpdateIncident(emergencyIncidents, handleRespond(rendered[i], now))
    /\ console' = console \cup {statusLog(handleRespond(rendered[i], now), now)}
    /\ dirty' = TRUE
    /\ pc' = "sync"
    /\ clickAt' = now
    /\ scansInRow' = 0
    /\ UNCHANGED <<mockVehicles, rendered, scanList, intervals, intervalAt, effectPending,
                   now, probe>>

\* "Mark Resolved", offered for the incidents rendered as responded
HandleResolve(i) ==
    /\ pc = "idle"
    /\ now > clickAt
    /\ i \in 1..Len(rendered)
    /\ rendered[i].status = "responded"
    /\ emergencyIncidents' = onUpdateIncident(emergencyIncidents, handleResolve(rendered[i], now))
    /\ console' = console \cup {statusLog(handleResolve(rendered[i], now), now)}
    /\ dirty' = TRUE
    /\ pc' = "sync"
    /\ clickAt' = now
    /\ scansInRow' = 0
    /\ UNCHANGED <<mockVehicles, rendered, scanList, intervals, intervalAt, effectPending,
                   now, probe>>

\* an unmount whose cleanup leaves the interval running
Unmount_NoCleanup ==
    /\ pc = "idle"
    /\ ~effectPending
    /\ pc' = "unmounted"
    /\ UNCHANGED <<console, mockVehicles, emergencyIncidents, rendered, scanList, intervals,
                   intervalAt, clickAt, effectPending, dirty, now, scansInRow, probe>>

\* App is unmounted: the cleanup of the last effect run, clearInterval(interval).
\* The effect of the last render is flushed before the unmount is rendered
Unmount ==
    /\ pc = "idle"
    /\ ~effectPending
    /\ intervals' = intervals \ {lastInterval}
    /\ pc' = "unmounted"
    /\ UNCHANGED <<console, mockVehicles, emergencyIncidents, rendered, scanList, intervalAt,
                   clickAt, effectPending, dirty, now, scansInRow, probe>>

\* the clock moves on
AdvanceClock ==
    /\ now < MaxTime
    /\ now' = now + 1
    /\ UNCHANGED <<console, mockVehicles, emergencyIncidents, rendered, scanList, intervals,
                   intervalAt, clickAt, effectPending, dirty, pc, scansInRow, probe>>

Next ==
    \/ EffectRun
    \/ TimerTick
    \/ Render
    \/ \E v \in 1..NumVehicles : FocusOnVehicle(v)
    \/ \E i \in 1..MaxIncidents : HandleRespond(i)
    \/ \E i \in 1..MaxIncidents : HandleResolve(i)
    \/ Unmount
    \/ AdvanceClock

Spec == Init /\ [][Next]_vars

\* The application with its scheduling: React renders a queued update and flushes
\* the passive effects of a render without waiting for anything, so a render
\* that stays possible happens and an effect that stays pending runs.  Nothing
\* is assumed about the user, the interval or the clock
SpecLive == Init /\ [][Next]_vars /\ WF_vars(Render) /\ WF_vars(EffectRun)

----------------------------------------------------------------------------
(* The lifecycle operations on their own: handleRespond and handleResolve take
   any incident, so here they are applied to every incident of the collection,
   whatever its status; open tests the current list *)

\* the log entries of status changes; the lifecycle operations stop at MaxStatusLog
statusEntries == { entry \in console : entry.event = "status updated" }

\* checkForEmergencies over the current list
OpsScan ==
    /\ LET next == checkForEmergencies(mockVehicles, emergencyIncidents, emergencyIncidents, now)
       IN  /\ Len(next) <= MaxIncidents
           /\ Len(next) > Len(emergencyIncidents)
           /\ emergencyIncidents' = next
    /\ console' = console \cup checkForEmergenciesLog(mockVehicles, emergencyIncidents, now)
    /\ UNCHANGED <<mockVehicles, rendered, scanList, intervals, intervalAt, clickAt,
                   effectPending, dirty, pc, now, scansInRow, probe>>

\* handleRespond(incident) with onUpdateIncident, for any incident of the list
OpsRespond(i) ==
    /\ i \in 1..Len(emergencyIncidents)
    /\ Cardinality(statusEntries) < MaxStatusLog
    /\ emergencyIncidents' =
           onUpdateIncident(emergencyIncidents, handleRespond(emergencyIncidents[i], now))
    /\ console' = console \cup {statusLog(handleRespond(emergencyIncidents[i], now), now)}
    /\ UNCHANGED <<mockVehicles, rendered, scanList, intervals, intervalAt, clickAt,
                   effectPending, dirty, pc, now, scansInRow, probe>>

\* handleResolve(incident) with onUpdateIncident, for any incident of the list
OpsResolve(i) ==
    /\ i \in 1..Len(emergencyIncidents)
    /\ Cardinality(statusEntries) < MaxStatusLog
    /\ emergencyIncidents' =
           onUpdateIncident(emergencyIncidents, handleResolve(emergencyIncidents[i], now))
    /\ console' = console \cup {statusLog(handleResolve(emergencyIncidents[i], now), now)}
    /\ UNCHANGED <<mockVehicles, rendered, scanList, intervals, intervalAt, clickAt,
                   effectPending, dirty, pc, now, scansInRow, probe>>

NextOps ==
    \/ OpsScan
    \/ \E i \in 1..MaxIncidents : OpsRespond(i)
    \/ \E i \in 1..MaxIncidents : OpsResolve(i)
    \/ AdvanceClock

SpecOps == Init /\ [][NextOps]_vars

----------------------------------------------------------------------------
(* The classifier on its own: generateBatteryHealth over a grid of inputs that
   holds every threshold, its neighbours and the scenarios of the specification *)

ProbeTemperatures == {20, 30, 38, 39, 43, 44, 47, 48, 50}
ProbeBatteryLevels == {10, 14, 15, 20, 24, 25, 29, 30, 80}
ProbeCycleCounts == {0, 100, 500, 501, 700, 701, 900, 901}

Classify ==
    /\ \E t \in ProbeTemperatures, b \in ProbeBatteryLevels, c \in ProbeCycleCounts :
           probe' = [op |-> "classify", batteryLevel |-> b,
                     batteryHealth |-> generateBatteryHealth(b, c, t)]
    /\ UNCHANGED <<console, mockVehicles, emergencyIncidents, rendered, scanList, intervals,
                   intervalAt, clickAt, effectPending, dirty, pc, now, scansInRow>>

InitClassifier ==
    /\ mockVehicles = <<>>
    /\ emergencyIncidents = <<>>
    /\ rendered = <<>>
    /\ scanList = <<>>
    /\ intervals = {}
    /\ intervalAt = 0
    /\ clickAt = 0
    /\ effectPending = FALSE
    /\ dirty = FALSE
    /\ pc = "idle"
    /\ now = 0
    /\ scansInRow = 0
    /\ probe = NoProbe
    /\ console = {}

SpecClassifier == InitClassifier /\ [][Classify]_vars

----------------------------------------------------------------------------
(* Two calls of the classifier for one battery (same batteryLevel and cycleCount):
   the draws of Math.random() inside generateBatteryHealth differ from call to call *)

App_ProbeTemperatures == {20, 35, 36, 40, 41, 45, 46, 49}
App_ProbeVoltages == {86, 87, 89, 90, 94, 95}
App_ProbeBatteryLevels == {19, 20, 29, 30, 80}
App_ProbeCycleCounts == {300, 301, 500, 501, 800, 801}

\* generateBatteryHealth of the current App, called twice
CompareCalls ==
    /\ probe = NoProbe
    /\ \E b \in ProbeBatteryLevels, c \in ProbeCycleCounts, t1, t2 \in ProbeTemperatures :
           probe' = [op |-> "compare", batteryLevel |-> b,
                     first |-> generateBatteryHealth(b, c, t1),
                     second |-> generateBatteryHealth(b, c, t2)]
    /\ UNCHANGED <<console, mockVehicles, emergencyIncidents, rendered, scanList, intervals,
                   intervalAt, clickAt, effectPending, dirty, pc, now, scansInRow>>

\* generateBatteryHealth of src/App.tsx, called twice
App_CompareCalls ==
    /\ probe = NoProbe
    /\ \E b \in App_ProbeBatteryLevels, c \in App_ProbeCycleCounts,
          t1, t2 \in App_ProbeTemperatures, v1, v2 \in App_ProbeVoltages :
           probe' = [op |-> "compareApp", batteryLevel |-> b,
                     first |-> App_generateBatteryHealth(b, c, t1, v1),
                     second |-> App_generateBatteryHealth(b, c, t2, v2)]
    /\ UNCHANGED <<console, mockVehicles, emergencyIncidents, rendered, scanList, intervals,
                   intervalAt, clickAt, effectPending, dirty, pc, now, scansInRow>>

NextCompare ==
    \/ CompareCalls
    \/ App_CompareCalls

SpecCompare == InitClassifier /\ [][NextCompare]_vars

----------------------------------------------------------------------------
(* What is drawn: the vehicle markers of the map and the resolved section of
   EmergencyDashboard *)

\* statusColor of an individual vehicle marker
statusColor(batteryLevel, temperature) ==
    IF temperature > CRITICAL_TEMP THEN "text-red-500"
    ELSE IF batteryLevel <= 50 THEN "text-yellow-500"
    ELSE "text-green-500"

\* new Date(incident.responseDetails?.resolvedAt || incident.timestamp).getTime():
\* both are written with toISOString(), which keeps the millisecond, and are
\* non-empty strings when present, so the value read back is the clock value written
resolvedTime(incident) ==
    IF "resolvedAt" \in DOMAIN incident.responseDetails
    THEN incident.responseDetails.resolvedAt
    ELSE incident.timestamp

\* Array.prototype.sort with the comparator time(b) - time(a): stable, latest first.
\* The last element goes behind every element that is not earlier than it
RECURSIVE sortByResolvedTime(_)
sortByResolvedTime(list) ==
    IF list = <<>> THEN <<>>
    ELSE LET rest == sortByResolvedTime(SubSeq(list, 1, Len(list) - 1))
             x == list[Len(list)]
             k == Cardinality({ i \in 1..Len(rest) : resolvedTime(rest[i]) >= resolvedTime(x) })
         IN  SubSeq(rest, 1, k) \o <<x>> \o SubSeq(rest, k + 1, Len(rest))

\* resolvedIncidents: filter on status, then sort
resolvedIncidents(incidents) ==
    sortByResolvedTime(SelectSeq(incidents, LAMBDA incident : incident.status = "resolved"))

\* the resolved section with slice(0, 5) taken before the sort
organizedIncidents_resolved_SliceFirst(incidents) ==
    LET filtered == SelectSeq(incidents, LAMBDA incident : incident.status = "resolved")
    IN  sortByResolvedTime(SubSeq(filtered, 1, IF Len(filtered) < 5 THEN Len(filtered) ELSE 5))

\* organizedIncidents.resolved: filter, sort, slice(0, 5)
organizedIncidents_resolved(incidents) ==
    LET sorted == resolvedIncidents(incidents)
    IN  SubSeq(sorted, 1, IF Len(sorted) < 5 THEN Len(sorted) ELSE 5)

\* incidents the dashboard can be handed, with the id i: pending, resolved at three
\* different times, and resolved without responseDetails
DashboardSamples(i) ==
    { [id |-> <<0, i>>, vehicleId |-> i, timestamp |-> 0, status |-> "pending",
       responseDetails |-> NoDetails] }
    \cup
    { [id |-> <<0, i>>, vehicleId |-> i, timestamp |-> 0, status |-> "resolved",
       responseDetails |-> [respondedAt |-> 0, resolvedAt |-> r]] : r \in 1..3 }
    \cup
    { [id |-> <<2, i>>, vehicleId |-> i, timestamp |-> 2, status |-> "resolved",
       responseDetails |-> NoDetails] }

\* EmergencyDashboard rendered with one more incident in its incidents prop
RenderDashboard ==
    /\ probe.op \in {"none", "dashboard"}
    /\ LET incidents == IF probe.op = "dashboard" THEN probe.incidents ELSE <<>>
       IN  /\ Len(incidents) < DashLen
           /\ \E incident \in DashboardSamples(Len(incidents) + 1) :
                  probe' = [op |-> "dashboard",
                            incidents |-> Append(incidents, incident),
                            resolved |-> organizedIncidents_resolved(Append(incidents, incident))]
    /\ UNCHANGED <<console, mockVehicles, emergencyIncidents, rendered, scanList, intervals,
                   intervalAt, clickAt, effectPending, dirty, pc, now, scansInRow>>

\* one vehicle marker rendered
RenderMarker ==
    /\ probe.op \in {"none", "marker"}
    /\ \E b \in ProbeBatteryLevels, t \in ProbeTemperatures :
           probe' = [op |-> "marker", batteryLevel |-> b, temperature |-> t,
                     statusColor |-> statusColor(b, t)]
    /\ UNCHANGED <<console, mockVehicles, emergencyIncidents, rendered, scanList, intervals,
                   intervalAt, clickAt, effectPending, dirty, pc, now, scansInRow>>

NextDisplay ==
    \/ RenderDashboard
    \/ RenderMarker

SpecDisplay == InitClassifier /\ [][NextDisplay]_vars

----------------------------------------------------------------------------
(* StatsDashboard: calculateStats over a vehicle list.  StatsDashboard.tsx holds
   two definitions of calculateStats: the first one (no lifecycleRisk), named
   Basic_calculateStats here, and the later one, named calculateStats.  A
   vehicle is reduced to the fields calculateStats reads; daysSinceInspection is
   Math.floor((now - lastInspectionDate) / one day) *)

\* the if / else-if chain on vehicle.batteryLevel (the same in both definitions)
batteryLevelCount(batteryLevel) ==
    IF batteryLevel <= 20 THEN "criticalBatteryCount"
    ELSE IF batteryLevel <= 50 THEN "mediumBatteryCount"
    ELSE "healthyBatteryCount"

\* first definition: temperatureRisk bucket of a temperature
Basic_temperatureRisk(temp) ==
    IF temp > 45 THEN "critical"
    ELSE IF temp > 40 THEN "high"
    ELSE IF temp > 35 THEN "moderate"
    ELSE "safe"

\* later definition with thermal runaway counted in a fifth bucket
temperatureRisk_FifthBucket(temp) ==
    IF temp >= 150 THEN "runaway"
    ELSE IF temp > 45 THEN "high"
    ELSE IF temp > 40 THEN "moderate"
    ELSE "safe"

\* later definition: temperatureRisk bucket of a temperature
temperatureRisk(temp) ==
    IF temp >= 150 THEN "critical"
    ELSE IF temp > 45 THEN "high"
    ELSE IF temp > 40 THEN "moderate"
    ELSE "safe"

\* combinedHealth bucket (the same tests in both definitions)
combinedHealth(batteryLevel, temp) ==
    LET isCriticalCharge == batteryLevel <= 20
        isCriticalHealth == temp > 45 \/ temp > 40
        isModerateHealth == temp > 35
        isMediumCharge == batteryLevel <= 50
    IN  IF isCriticalCharge \/ isCriticalHealth THEN "critical"
        ELSE IF isMediumCharge \/ isModerateHealth THEN "medium"
        ELSE "healthy"

\* lifecycleRisk bucket (later definition only)
lifecycleRisk(cycles, daysSinceInspection) ==
    IF cycles > 900 \/ daysSinceInspection > 45 THEN "critical"
    ELSE IF cycles > 700 \/ daysSinceInspection > 30 THEN "warning"
    ELSE IF cycles > 500 \/ daysSinceInspection > 15 THEN "moderate"
    ELSE "healthy"

\* vehicle.type === 'bike' ? 'bikes' : 'scooters'
byVehicleTypeKey(type) == IF type = "bike" THEN "bikes" ELSE "scooters"

\* a counter after the forEach: one increment for each vehicle whose branch is key;
\* branches[i] is the branch vehicle i takes
countOf(branches, key) ==
    Cardinality({ i \in 1..Len(branches) : branches[i] = key })

RECURSIVE sumOf(_, _)
sumOf(vehicles, field) ==
    IF vehicles = <<>> THEN 0
    ELSE vehicles[1][field] + sumOf(Tail(vehicles), field)

\* Math.round(sum / vehicles.length); 0 / 0 is NaN
roundedAverage(sum, length) ==
    IF length = 0 THEN "NaN" ELSE (2 * sum + length) \div (2 * length)

\* the counters both definitions of calculateStats keep
commonStats(vehicles) ==
    LET charge == [i \in 1..Len(vehicles) |-> batteryLevelCount(vehicles[i].batteryLevel)]
        type == [i \in 1..Len(vehicles) |-> byVehicleTypeKey(vehicles[i].type)]
        status == [i \in 1..Len(vehicles) |-> vehicles[i].status]
        combined == [i \in 1..Len(vehicles) |->
                        combinedHealth(vehicles[i].batteryLevel, vehicles[i].temperature)]
    IN  [ totalVehicles |-> Len(vehicles),
          averageBatteryLevel |->
              roundedAverage(sumOf(vehicles, "batteryLevel"), Len(vehicles)),
          criticalBatteryCount |-> countOf(charge, "criticalBatteryCount"),
          mediumBatteryCount |-> countOf(charge, "mediumBatteryCount"),
          healthyBatteryCount |-> countOf(charge, "healthyBatteryCount"),
          byVehicleType |-> [ k \in {"bikes", "scooters"} |-> countOf(type, k) ],
          byStatus |-> [ k \in {"available", "in-use", "maintenance"} |-> countOf(status, k) ],
          combinedHealth |-> [ k \in {"critical", "medium", "healthy"} |-> countOf(combined, k) ] ]

\* first definition of calculateStats
Basic_calculateStats(vehicles) ==
    LET risk == [i \in 1..Len(vehicles) |-> Basic_temperatureRisk(vehicles[i].temperature)]
    IN  [ common |-> commonStats(vehicles),
          temperatureRisk |->
              [ k \in {"critical", "high", "moderate", "safe"} |-> countOf(risk, k) ] ]

\* later definition of calculateStats
calculateStats(vehicles) ==
    LET risk == [i \in 1..Len(vehicles) |-> temperatureRisk(vehicles[i].temperature)]
        lifecycle == [i \in 1..Len(vehicles) |->
                         lifecycleRisk(vehicles[i].cycleCount, vehicles[i].daysSinceInspection)]
    IN  [ common |-> commonStats(vehicles),
          temperatureRisk |->
              [ k \in {"critical", "high", "moderate", "safe"} |-> countOf(risk, k) ],
          lifecycleRisk |->
              [ k \in {"critical", "warning", "moderate", "healthy"} |-> countOf(lifecycle, k) ]
              @@ [ averageCycles |->
                       roundedAverage(sumOf(vehicles, "cycleCount"), Len(vehicles)) ] ]

\* longest vehicle list handed to StatsDashboard
StatsLen == 2

\* vehicles StatsDashboard can be handed: every pair of charge and temperature
\* around the thresholds, every pair of cycle count and inspection age around the
\* thresholds, every pair of type and status
StatsSamples ==
    { [batteryLevel |-> b, temperature |-> t, cycleCount |-> 100, daysSinceInspection |-> 3,
       type |-> "bike", status |-> "available"] :
          b \in {20, 21, 50, 51}, t \in {35, 36, 40, 41, 45, 46, 150} }
    \cup
    { [batteryLevel |-> 80, temperature |-> 30, cycleCount |-> c, daysSinceInspection |-> d,
       type |-> "scooter", status |-> "in-use"] :
          c \in {500, 501, 701, 901}, d \in {15, 16, 31, 46} }
    \cup
    { [batteryLevel |-> 80, temperature |-> 30, cycleCount |-> 100, daysSinceInspection |-> 3,
       type |-> ty, status |-> st] :
          ty \in {"bike", "scooter"}, st \in {"available", "in-use", "maintenance"} }

\* StatsDashboard rendered with one more vehicle in its vehicles prop
RenderStats ==
    /\ probe.op \in {"none", "stats"}
    /\ LET vehicles == IF probe.op = "stats" THEN probe.vehicles ELSE <<>>
       IN  /\ Len(vehicles) < StatsLen
           /\ \E vehicle \in StatsSamples :
                  probe' = [op |-> "stats",
                            vehicles |-> Append(vehicles, vehicle),
                            basic |-> Basic_calculateStats(Append(vehicles, vehicle)),
                            stats |-> calculateStats(Append(vehicles, vehicle))]
    /\ UNCHANGED <<console, mockVehicles, emergencyIncidents, rendered, scanList, intervals,
                   intervalAt, clickAt, effectPending, dirty, pc, now, scansInRow>>

\* StatsDashboard rendered with an empty fleet
RenderEmptyStats ==
    /\ probe.op = "none"
    /\ probe' = [op |-> "stats", vehicles |-> <<>>,
                 basic |-> Basic_calculateStats(<<>>), stats |-> calculateStats(<<>>)]
    /\ UNCHANGED <<console, mockVehicles, emergencyIncidents, rendered, scanList, intervals,
                   intervalAt, clickAt, effectPending, dirty, pc, now, scansInRow>>

NextStats ==
    \/ RenderStats
    \/ RenderEmptyStats

SpecStats == InitClassifier /\ [][NextStats]_vars

----------------------------------------------------------------------------
(* onUpdateIncident on its own: one status update handed to a collection.
   generateEmergencyIncident reads the clock twice, Date.now() for the id and
   new Date() for the timestamp, and the second read may fall in the next
   millisecond.  Two incidents of one vehicle whose ids were built in the same
   millisecond (focusOnVehicle followed by the flush of the pending scan) share
   the id and can differ in the timestamp *)

\* longest collection handed to onUpdateIncident
UpdateLen == 2

\* generateEmergencyIncident with its two clock reads told apart
stampedIncident(vehicle, idClock, timestampClock) ==
    [generateEmergencyIncident(vehicle, idClock) EXCEPT !.timestamp = timestampClock]

\* two flagged vehicles of generateVehicles
UpdateVehicles ==
    { makeVehicle(1, "downtown", 20, 100, 48), makeVehicle(2, "timesSquare", 64, 950, 49) }

\* incidents created at time 0, as created, after Mark Responded at time 1 and
\* after Mark Resolved at time 2
UpdateSamples ==
    UNION { { incident, handleRespond(incident, 1), handleResolve(handleRespond(incident, 1), 2) } :
              incident \in { stampedIncident(vehicle, 0, timestampClock) :
                                 vehicle \in UpdateVehicles, timestampClock \in {0, 1} } }

\* collections of at most n incidents
RECURSIVE collections(_)
collections(n) ==
    IF n = 0 THEN { <<>> }
    ELSE collections(n - 1)
         \cup { Append(list, incident) : list \in { l \in collections(n - 1) : Len(l) = n - 1 },
                                          incident \in UpdateSamples }

\* the dashboard hands handleRespond(incident) or handleResolve(incident) to
\* onUpdateIncident: incident is an incident of the collection, or one whose id
\* matches no incident of it
UpdateCall ==
    /\ probe = NoProbe
    /\ \E prev \in collections(UpdateLen), incident \in UpdateSamples :
           /\ \/ \E k \in 1..Len(prev) : prev[k] = incident
              \/ \A k \in 1..Len(prev) : prev[k].id # incident.id
           /\ \E updatedIncident \in { handleRespond(incident, 3), handleResolve(incident, 3) } :
                  probe' = [op |-> "update", prev |-> prev, updatedIncident |-> updatedIncident,
                            next |-> onUpdateIncident(prev, updatedIncident)]
    /\ UNCHANGED <<console, mockVehicles, emergencyIncidents, rendered, scanList, intervals,
                   intervalAt, clickAt, effectPending, dirty, pc, now, scansInRow>>

SpecUpdate == InitClassifier /\ [][UpdateCall]_vars

----------------------------------------------------------------------------
(* generateVehicles on its own: one vehicle synthesized from its draws of
   Math.random().  A draw is k / Resolution with k in 0..Resolution-1, so
   0 <= draw < 1; a drawn temperature is kept in units of 1 / Resolution
   degree and handed to the classifier as its integer ceiling.
   Numbers are IEEE doubles.  For the largest double below 1 that Math.random()
   returns (1 - 2^-52, or 1 - 2^-53), 20 + r * 15 is rounded to 35 and
   35 + r * 15 is rounded to 50: the temperature draws have the value
   k = Resolution for it.  Math.floor(20 + r * r * 80) and Math.floor(r * 1000)
   stay at most 99 and 999 for that draw, like the draws below it *)

\* number of values a draw of Math.random() can take
Resolution == 8

RandomDraws == 0..(Resolution - 1)

\* the draws that scale a temperature: RandomDraws and the largest double below 1
TemperatureDraws == RandomDraws \cup {Resolution}

\* batteryLevel with the offset of 20 left out: Math.floor(r * r * 100)
drawBatteryLevel_FromZero(r1, r2) ==
    (r1 * r2 * 100) \div (Resolution * Resolution)

\* Math.floor(20 + (Math.random() * Math.random() * 80))
drawBatteryLevel(r1, r2) ==
    20 + ((r1 * r2 * 80) \div (Resolution * Resolution))

\* Math.floor(Math.random() * 1000)
drawCycleCount(r) == (r * 1000) \div Resolution

\* the temperature of generateBatteryHealth in units of 1 / Resolution degree:
\* tempBase = 20 + r * 15, isOverheating = r < 0.08, overheating 35 + r * 15
drawTemperature(rBase, rOverheating, rHot) ==
    LET tempBase == 20 * Resolution + rBase * 15
        isOverheating == rOverheating * 100 < 8 * Resolution
    IN  IF isOverheating THEN 35 * Resolution + rHot * 15 ELSE tempBase

\* whole degrees: the integer ceiling of a drawn temperature
wholeDegrees(drawn) == (drawn + Resolution - 1) \div Resolution

\* one turn of the loop of generateVehicles: the vehicle, and whether
\* dangerousVehicles lists it while it has no incident
SynthesizeVehicle ==
    /\ probe = NoProbe
    /\ \E r1, r2, rCycles, rOverheating \in RandomDraws, rBase, rHot \in TemperatureDraws :
           LET drawn == drawTemperature(rBase, rOverheating, rHot)
               vehicle == makeVehicle(1, "downtown", drawBatteryLevel(r1, r2),
                                      drawCycleCount(rCycles), wholeDegrees(drawn))
           IN  probe' = [op |-> "vehicle", vehicle |-> vehicle, drawn |-> drawn,
                         dangerous |-> (dangerousVehicles(<<vehicle>>, <<>>) # {})]
    /\ UNCHANGED <<console, mockVehicles, emergencyIncidents, rendered, scanList, intervals,
                   intervalAt, clickAt, effectPending, dirty, pc, now, scansInRow>>

SpecSynthesis == InitClassifier /\ [][SynthesizeVehicle]_vars

----------------------------------------------------------------------------
(* Claims *)

\* an optional timestamp of responseDetails: <<t>> when set, <<>> when absent
detail(incident, key) ==
    IF key \in DOMAIN incident.responseDetails
    THEN <<incident.responseDetails[key]>>
    ELSE <<>>

isOpen(incident) == incident.status \in {"pending", "responded"}

incidentsOf(list, vehicleId) == { i \in 1..Len(list) : list[i].vehicleId = vehicleId }

openIncidentsOf(list, vehicleId) ==
    { i \in 1..Len(list) : list[i].vehicleId = vehicleId /\ isOpen(list[i]) }

\* C1: at every time, every vehicle id is referenced by at most one incident whose
\* status is pending or responded
C1_AtMostOneOpenIncident ==
    \A v \in 1..Len(mockVehicles) :
        Cardinality(openIncidentsOf(emergencyIncidents, mockVehicles[v].id)) <= 1

statusMoveAllowed(from, to) ==
    \/ to = from
    \/ (from = "pending" /\ to = "responded")
    \/ (from = "responded" /\ to = "resolved")

\* C2: in every step the status of every incident stays as it is or moves
\* pending -> responded or responded -> resolved; a resolved incident stays resolved
C2_StatusOnlyForward ==
    [][\A i \in 1..Len(emergencyIncidents) :
          /\ i <= Len(emergencyIncidents')
          /\ statusMoveAllowed(emergencyIncidents[i].status, emergencyIncidents'[i].status)]_vars

\* C2 (cases): an incident is resolved and a later incident of the same vehicle has
\* been moved to responded
C2_Witness ==
    \E i, j \in 1..Len(emergencyIncidents) :
        /\ i < j
        /\ emergencyIncidents[i].vehicleId = emergencyIncidents[j].vehicleId
        /\ emergencyIncidents[i].status = "resolved"
        /\ emergencyIncidents[j].status = "responded"

\* C3: handleResolve with onUpdateIncident applied to a pending incident leaves the
\* whole collection as it was (the incident stays pending, without resolvedAt)
C3_ResolvePendingIsNoOp ==
    [][\A i \in 1..Len(emergencyIncidents) :
          (OpsResolve(i) /\ emergencyIncidents[i].status = "pending")
              => emergencyIncidents' = emergencyIncidents]_vars

\* C4: handleRespond with onUpdateIncident applied to a responded or resolved incident
\* leaves that incident's status and respondedAt timestamp unchanged
C4_RespondOnlyFromPending ==
    [][\A i \in 1..Len(emergencyIncidents) :
          (OpsRespond(i) /\ emergencyIncidents[i].status \in {"responded", "resolved"})
              => /\ emergencyIncidents'[i].status = emergencyIncidents[i].status
                 /\ detail(emergencyIncidents'[i], "respondedAt") =
                        detail(emergencyIncidents[i], "respondedAt")]_vars

\* C5: a scan that follows a scan, with no focus, respond or resolve action in
\* between, leaves the incident collection unchanged
C5_ScanIdempotent ==
    [][(scansInRow >= 1 /\ (EffectRun \/ TimerTick))
          => emergencyIncidents' = emergencyIncidents]_vars

\* C5 (cases): two or more scans have run in a row and the collection is not empty
C5_Witness ==
    /\ scansInRow = 2
    /\ Len(emergencyIncidents) >= 1

\* C6: no step appends an incident for a vehicle that already has an incident with
\* status pending or responded
C6_OpenIsNoOpWhenOpenExists ==
    [][\A v \in 1..Len(mockVehicles) :
          hasActiveIncident(emergencyIncidents, mockVehicles[v].id)
              => Cardinality(incidentsOf(emergencyIncidents', mockVehicles[v].id))
                     = Cardinality(incidentsOf(emergencyIncidents, mockVehicles[v].id))]_vars

isSnapshotOf(incident, vehicle) ==
    /\ incident.vehicleId = vehicle.id
    /\ incident.status = "pending"
    /\ DOMAIN incident.responseDetails = {}
    /\ incident.location = vehicle.location
    /\ incident.temperature = vehicle.batteryHealth.temperature
    /\ incident.batteryLevel = vehicle.batteryLevel
    /\ incident.riskLevel = vehicle.batteryHealth.riskLevel

\* C7: a step that opens incidents leaves the existing incidents in place and appends
\* after them, for a vehicle that had no open incident exactly one incident, each new
\* incident pending, without response timestamps, carrying the id, location,
\* temperature, batteryLevel and riskLevel of its vehicle
C7_OpenAppendsPendingSnapshot ==
    [][Len(emergencyIncidents') > Len(emergencyIncidents)
          => /\ SubSeq(emergencyIncidents', 1, Len(emergencyIncidents)) = emergencyIncidents
             /\ \A k \in (Len(emergencyIncidents) + 1)..Len(emergencyIncidents') :
                    \E v \in 1..Len(mockVehicles) :
                        isSnapshotOf(emergencyIncidents'[k], mockVehicles[v])
             /\ \A v \in 1..Len(mockVehicles) :
                    ~hasActiveIncident(emergencyIncidents, mockVehicles[v].id)
                        => Cardinality({ k \in (Len(emergencyIncidents) + 1)..Len(emergencyIncidents') :
                                           emergencyIncidents'[k].vehicleId = mockVehicles[v].id }) <= 1]_vars

\* C7 (cases): some incident of a vehicle is resolved and a later one of the same
\* vehicle, opened when the vehicle had no open incident, is pending
C7_Witness ==
    \E i, j \in 1..Len(emergencyIncidents) :
        /\ i < j
        /\ emergencyIncidents[i].vehicleId = emergencyIncidents[j].vehicleId
        /\ emergencyIncidents[i].status = "resolved"
        /\ emergencyIncidents[j].status = "pending"

\* C8: no step shortens the collection and every incident id of the collection is
\* still in it after the step
C8_NeverDeleted ==
    [][/\ Len(emergencyIncidents') >= Len(emergencyIncidents)
       /\ \A i \in 1..Len(emergencyIncidents) :
              \E j \in 1..Len(emergencyIncidents') :
                  emergencyIncidents'[j].id = emergencyIncidents[i].id]_vars

\* C8 (cases): a collection of two or more incidents in which an incident has been
\* taken through respond and resolve
C8_Witness ==
    /\ Len(emergencyIncidents) >= 2
    /\ \E i \in 1..Len(emergencyIncidents) : emergencyIncidents[i].status = "resolved"

criticalRule(t, b, c) == t > 47 \/ (t > 43 /\ b < 15) \/ c > 900
highRule(t, b, c) == t > 43 \/ (b < 25 /\ t > 38) \/ c > 700
moderateRule(t, b, c) == t > 38 \/ b < 30 \/ c > 500

\* C9: the risk level of generateBatteryHealth is critical exactly when the critical
\* rule matches, high exactly when it does not and the high rule matches, moderate
\* exactly when neither does and the moderate rule matches, low otherwise; (50 C, 10%,
\* 100 cycles) is critical and (30 C, 80%, 100 cycles) is low
C9_RiskRuleList ==
    probe.op = "classify" =>
        LET t == probe.batteryHealth.temperature
            b == probe.batteryLevel
            c == probe.batteryHealth.cycleCount
            level == probe.batteryHealth.riskLevel
        IN  /\ (level = "critical") <=> criticalRule(t, b, c)
            /\ (level = "high") <=> (~criticalRule(t, b, c) /\ highRule(t, b, c))
            /\ (level = "moderate") <=>
                   (~criticalRule(t, b, c) /\ ~highRule(t, b, c) /\ moderateRule(t, b, c))
            /\ (level = "low") <=>
                   (~criticalRule(t, b, c) /\ ~highRule(t, b, c) /\ ~moderateRule(t, b, c))
            /\ (t = 50 /\ b = 10 /\ c = 100) => level = "critical"
            /\ (t = 30 /\ b = 80 /\ c = 100) => level = "low"

\* C9 (cases): the scenario 50 C, 10%, 100 cycles has been classified
C9_Witness ==
    /\ probe.op = "classify"
    /\ probe.batteryHealth.temperature = 50
    /\ probe.batteryLevel = 10
    /\ probe.batteryHealth.cycleCount = 100
    /\ probe.batteryHealth.riskLevel = "critical"

\* C10: requiresEmergencyResponse is true exactly when temperature > 47, or
\* temperature > 43 and charge < 15, whatever the cycle count
C10_EmergencyFlag ==
    probe.op = "classify" =>
        (probe.batteryHealth.requiresEmergencyResponse
            <=> \/ probe.batteryHealth.temperature > 47
                \/ (probe.batteryHealth.temperature > 43 /\ probe.batteryLevel < 15))

\* C10 (cases): a battery beyond 900 cycles, critical by the cycle rule alone, has
\* been classified without the flag
C10_Witness ==
    /\ probe.op = "classify"
    /\ probe.batteryHealth.cycleCount > 900
    /\ probe.batteryHealth.riskLevel = "critical"
    /\ ~probe.batteryHealth.requiresEmergencyResponse

severity(level) ==
    CASE level = "low" -> 0
      [] level = "moderate" -> 1
      [] level = "high" -> 2
      [] level = "critical" -> 3

\* the second call was made with everything but the temperature as in the first
sameButTemperature ==
    probe.op = "compareApp" => probe.first.voltageStability = probe.second.voltageStability

C12_DeterministicAndTotal ==
    probe.op \in {"compare", "compareApp"} =>
        /\ probe.first.riskLevel \in RiskLevels
        /\ probe.second.riskLevel \in RiskLevels
        /\ (probe.first.temperature = probe.second.temperature
                => probe.first.riskLevel = probe.second.riskLevel)

\* C13: no step changes the vehicle array or any field of a vehicle
C13_VehiclesImmutable ==
    [][mockVehicles' = mockVehicles]_vars

\* C13 (cases): a scan has logged an incident, a click on the danger panel has opened
\* one (no alert was logged for it), and an incident has been responded and resolved
C13_Witness ==
    /\ \E i \in 1..Len(emergencyIncidents) : emergencyIncidents[i].status = "resolved"
    /\ \E i \in 1..Len(emergencyIncidents) :
           \A entry \in console : entry.incidentId # emergencyIncidents[i].id
    /\ \E entry \in console : entry.event = "EMERGENCY ALERT"

\* C14: at every time, no two incidents of the collection have the same id
C14_UniqueIds ==
    \A i, j \in 1..Len(emergencyIncidents) :
        i # j => emergencyIncidents[i].id # emergencyIncidents[j].id

\* C15: once App is unmounted no scan runs any more: neither the interval callback
\* nor the effect fires, and no incident and no log entry is added
C15_NoScanAfterUnmount ==
    [][pc = "unmounted" =>
          /\ ~TimerTick
          /\ ~EffectRun
          /\ emergencyIncidents' = emergencyIncidents
          /\ console' = console]_vars

\* C15 (cases): App was unmounted and the time at which the interval would fire
\* has passed, with incidents in the collection
C15_Witness ==
    /\ pc = "unmounted"
    /\ now > intervalAt
    /\ ~dirty
    /\ Len(emergencyIncidents) >= 1

positionOf(vehicleId) == CHOOSE k \in 1..Len(mockVehicles) : mockVehicles[k].id = vehicleId

\* C16: a scan keeps the incidents that existed before it at the front, in their
\* order, and appends its new incidents after them in the order of their vehicles
\* in the vehicle array
C16_CreationOrderIsScanOrder ==
    [][(EffectRun \/ TimerTick) =>
          /\ Len(emergencyIncidents') >= Len(emergencyIncidents)
          /\ SubSeq(emergencyIncidents', 1, Len(emergencyIncidents)) = emergencyIncidents
          /\ \A i, j \in (Len(emergencyIncidents) + 1)..Len(emergencyIncidents') :
                 i < j => positionOf(emergencyIncidents'[i].vehicleId)
                              < positionOf(emergencyIncidents'[j].vehicleId)]_vars

\* C16 (cases): one scan has appended incidents for two vehicles behind an incident
\* that was there before
C16_Witness ==
    /\ Len(emergencyIncidents) = 3
    /\ emergencyIncidents[2].timestamp = emergencyIncidents[3].timestamp
    /\ emergencyIncidents[2].vehicleId < emergencyIncidents[3].vehicleId
    /\ \E entry \in console : /\ entry.event = "EMERGENCY ALERT"
                               /\ entry.incidentId = emergencyIncidents[2].id
    /\ \E entry \in console : /\ entry.event = "EMERGENCY ALERT"
                               /\ entry.incidentId = emergencyIncidents[3].id
    /\ scansInRow = 0

\* C17: the fire department is alerted for a newly detected incident exactly when
\* the temperature of its vehicle is 150 degrees or more
C17_FireAlertAtThermalRunaway ==
    \A alert \in console :
        alert.event = "EMERGENCY ALERT" =>
            ((\E entry \in console : /\ entry.event = "ALERTING FIRE DEPARTMENT"
                                      /\ entry.incidentId = alert.incidentId)
                <=> alert.temperature >= 150)

\* C18: every incident of the collection has a log entry for its creation, and one
\* for each status change it went through, each with a timestamp and the incident id
C18_EveryEventLogged ==
    \A i \in 1..Len(emergencyIncidents) :
        LET incident == emergencyIncidents[i]
            logged(event, status) ==
                \E entry \in console :
                    /\ entry.event = event
                    /\ entry.incidentId = incident.id
                    /\ "timestamp" \in DOMAIN entry
                    /\ (event = "status updated" => entry.status = status)
        IN  /\ logged("EMERGENCY ALERT", "pending")
            /\ ("respondedAt" \in DOMAIN incident.responseDetails
                    => logged("status updated", "responded"))
            /\ ("resolvedAt" \in DOMAIN incident.responseDetails
                    => logged("status updated", "resolved"))

\* the colour the map legend gives a battery level
legendColor(level) ==
    IF level < 20 THEN "text-red-500"
    ELSE IF level <= 50 THEN "text-yellow-500"
    ELSE "text-green-500"

\* C19: the colour of a vehicle marker is the legend's colour for its battery level:
\* red below 20%, yellow from 20% to 50%, green above 50%
C19_MarkerColourFollowsLegend ==
    probe.op = "marker" => probe.statusColor = legendColor(probe.batteryLevel)

\* C20: the resolved section holds at most 5 incidents, all of them resolved incidents
\* of the collection, each once, latest first by resolvedAt (or the creation timestamp);
\* it holds all resolved incidents when there are 5 or fewer, and no resolved incident
\* left out is later than one that is shown
C20_ResolvedSectionShowsLatestFive ==
    probe.op = "dashboard" =>
        LET shown == probe.resolved
            all == probe.incidents
            resolvedOnes == { i \in 1..Len(all) : all[i].status = "resolved" }
            shownOnes == { i \in resolvedOnes : \E j \in 1..Len(shown) : shown[j] = all[i] }
        IN  /\ Len(shown) <= 5
            /\ \A j \in 1..Len(shown) : shown[j].status = "resolved"
            /\ \A j \in 1..Len(shown) : \E i \in resolvedOnes : all[i] = shown[j]
            /\ \A j, k \in 1..Len(shown) : j # k => shown[j] # shown[k]
            /\ \A j, k \in 1..Len(shown) :
                   j < k => resolvedTime(shown[j]) >= resolvedTime(shown[k])
            /\ Len(shown) = (IF Cardinality(resolvedOnes) < 5 THEN Cardinality(resolvedOnes) ELSE 5)
            /\ \A i \in resolvedOnes \ shownOnes : \A j \in 1..Len(shown) :
                   resolvedTime(all[i]) <= resolvedTime(shown[j])

\* C20 (cases): six resolved incidents, the last of the collection later than the
\* first: the last one is shown on top and the first one is left out
C20_Witness ==
    /\ probe.op = "dashboard"
    /\ Len(probe.incidents) = 6
    /\ \A i \in 1..6 : probe.incidents[i].status = "resolved"
    /\ resolvedTime(probe.incidents[6]) > resolvedTime(probe.incidents[1])
    /\ probe.resolved[1] = probe.incidents[6]
    /\ \A j \in 1..Len(probe.resolved) : probe.resolved[j] # probe.incidents[1]

\* sum of the counters of one family
sumOfCounters(counters) ==
    LET RECURSIVE total(_)
        total(keys) == IF keys = {} THEN 0
                       ELSE LET k == CHOOSE x \in keys : TRUE
                            IN  counters[k] + total(keys \ {k})
    IN  total(DOMAIN counters)

\* the combinedHealth bucket the specification gives a vehicle, from its charge and
\* from the temperatureRisk counters of the one-vehicle fleet
combinedFromBuckets(batteryLevel, counters) ==
    IF batteryLevel <= 20 \/ counters.critical = 1 \/ counters.high = 1 THEN "critical"
    ELSE IF batteryLevel <= 50 \/ counters.moderate = 1 THEN "medium"
    ELSE "healthy"

\* C21: calculateStats counts a vehicle in combinedHealth.critical exactly when its
\* batteryLevel is at most 20 or its temperature is in the critical or high bucket
\* of temperatureRisk of the same calculateStats, in medium exactly when it is not
\* critical and its batteryLevel is at most 50 or its temperature is in the moderate
\* bucket, and in healthy otherwise; for both definitions of calculateStats
C21_CombinedHealthFollowsBuckets ==
    probe.op = "stats" =>
        LET vehicles == probe.vehicles
            basic == [i \in 1..Len(vehicles) |->
                         combinedFromBuckets(vehicles[i].batteryLevel,
                             Basic_calculateStats(<<vehicles[i]>>).temperatureRisk)]
            later == [i \in 1..Len(vehicles) |->
                         combinedFromBuckets(vehicles[i].batteryLevel,
                             calculateStats(<<vehicles[i]>>).temperatureRisk)]
        IN  \A k \in {"critical", "medium", "healthy"} :
                /\ probe.basic.common.combinedHealth[k] = countOf(basic, k)
                /\ probe.stats.common.combinedHealth[k] = countOf(later, k)

\* C30: every family of counters of calculateStats partitions the fleet: the three
\* battery-level counts, the four temperatureRisk counts, the three combinedHealth
\* counts, the four lifecycleRisk counts, the two byVehicleType counts and the three
\* byStatus counts each sum to totalVehicles, for every vehicle list
C30_CountersPartitionFleet ==
    probe.op = "stats" =>
        /\ \A s \in {probe.basic, probe.stats} :
               /\ s.common.totalVehicles = Len(probe.vehicles)
               /\ s.common.criticalBatteryCount + s.common.mediumBatteryCount
                      + s.common.healthyBatteryCount = s.common.totalVehicles
               /\ DOMAIN s.temperatureRisk = {"critical", "high", "moderate", "safe"}
               /\ sumOfCounters(s.temperatureRisk) = s.common.totalVehicles
               /\ sumOfCounters(s.common.combinedHealth) = s.common.totalVehicles
               /\ sumOfCounters(s.common.byVehicleType) = s.common.totalVehicles
               /\ sumOfCounters(s.common.byStatus) = s.common.totalVehicles
        /\ \A k \in {"critical", "warning", "moderate", "healthy"} :
               probe.stats.lifecycleRisk[k] \in 0..Len(probe.vehicles)
        /\ probe.stats.lifecycleRisk.critical + probe.stats.lifecycleRisk.warning
               + probe.stats.lifecycleRisk.moderate + probe.stats.lifecycleRisk.healthy
               = probe.stats.common.totalVehicles

\* a fleet of two whose vehicles fall in different buckets of every family but byStatus
\* and byVehicleType: thermal runaway next to a worn-out battery
C30_Witness ==
    /\ probe.op = "stats"
    /\ Len(probe.vehicles) = 2
    /\ probe.stats.temperatureRisk.critical = 1
    /\ probe.stats.temperatureRisk.safe = 1
    /\ probe.stats.lifecycleRisk.critical = 1
    /\ probe.stats.lifecycleRisk.healthy = 1
    /\ probe.stats.common.byVehicleType.bikes = 1
    /\ probe.stats.common.byStatus["in-use"] = 1
    /\ probe.stats.common.healthyBatteryCount = 1

\* C22: whenever requiresEmergencyResponse is true the riskLevel is critical; the
\* converse does not hold: a battery beyond 900 cycles is critical, and it is
\* critical without the flag when neither temperature condition of the flag is met
C22_FlagImpliesCritical ==
    probe.op = "classify" =>
        LET health == probe.batteryHealth
        IN  /\ health.requiresEmergencyResponse => health.riskLevel = "critical"
            /\ health.cycleCount > 900 => health.riskLevel = "critical"
            /\ (health.cycleCount > 900 /\ health.temperature <= HIGH_TEMP)
                   => ~health.requiresEmergencyResponse

\* a battery flagged by the low-charge branch alone (not beyond 47 degrees, not
\* beyond 900 cycles) has been classified critical
C22_Witness ==
    /\ probe.op = "classify"
    /\ probe.batteryHealth.requiresEmergencyResponse
    /\ probe.batteryHealth.temperature <= CRITICAL_TEMP
    /\ probe.batteryHealth.cycleCount <= 900
    /\ probe.batteryHealth.riskLevel = "critical"

\* C23: every incident of the collection, created by the scan or by focusOnVehicle,
\* references the id of an existing vehicle whose requiresEmergencyResponse is
\* true, and its snapshot riskLevel is critical
C23_IncidentsOnlyForFlaggedVehicles ==
    \A i \in 1..Len(emergencyIncidents) :
        /\ \E v \in 1..Len(mockVehicles) :
               /\ mockVehicles[v].id = emergencyIncidents[i].vehicleId
               /\ mockVehicles[v].batteryHealth.requiresEmergencyResponse
        /\ emergencyIncidents[i].riskLevel = "critical"

\* the collection holds an incident of the scan (its alert was logged) and an
\* incident of focusOnVehicle (no alert carries its id)
C23_Witness ==
    /\ \E i \in 1..Len(emergencyIncidents) :
           \E entry \in console :
               entry.event = "EMERGENCY ALERT" /\ entry.incidentId = emergencyIncidents[i].id
    /\ \E i \in 1..Len(emergencyIncidents) :
           \A entry \in console :
               entry.event = "EMERGENCY ALERT" => entry.incidentId # emergencyIncidents[i].id

\* the vehicle is flagged and none of its incidents is open
flaggedWithoutOpenIncident(v) ==
    /\ mockVehicles[v].batteryHealth.requiresEmergencyResponse
    /\ openIncidentsOf(emergencyIncidents, mockVehicles[v].id) = {}

\* the vehicle has a pending incident
hasPendingIncident(v) ==
    \E i \in 1..Len(emergencyIncidents) :
        /\ emergencyIncidents[i].vehicleId = mockVehicles[v].id
        /\ emergencyIncidents[i].status = "pending"

\* the incidents a scan of the whole fleet would add fit in the modelled collection
scanFits ==
    Len(checkForEmergencies(mockVehicles, emergencyIncidents, emergencyIncidents, now))
        <= MaxIncidents

\* C24: whenever a flagged vehicle has no open incident (at start, or after its
\* incident was resolved), a scan eventually opens a new pending incident for it,
\* as long as App stays mounted: resolving the incident of a flagged vehicle is
\* always followed by a fresh pending incident
C24_FlaggedVehicleGetsIncident ==
    \A v \in 1..NumVehicles :
        (flaggedWithoutOpenIncident(v) /\ scanFits)
            ~> (hasPendingIncident(v) \/ pc = "unmounted")

\* the incident of a flagged vehicle was resolved and a fresh pending incident of
\* the same vehicle stands behind it
C24_Witness ==
    \E i, j \in 1..Len(emergencyIncidents) :
        /\ i < j
        /\ emergencyIncidents[i].vehicleId = emergencyIncidents[j].vehicleId
        /\ emergencyIncidents[i].status = "resolved"
        /\ emergencyIncidents[j].status = "pending"
        /\ emergencyIncidents[j].timestamp >= emergencyIncidents[i].responseDetails.resolvedAt

\* C25: the scan effect re-runs whenever the incident list changes, its own changes
\* included, and the chain terminates: every change of the list queues a render,
\* the render of a changed list queues the effect, and with no user action in
\* between the scan re-triggered by a scan's own additions adds no incident and
\* queues nothing, so the effect never runs a third time in a row
C25_ScanChainTerminates ==
    [][/\ (emergencyIncidents' # emergencyIncidents) => dirty'
       /\ (Render /\ dirty) => (effectPending' /\ ~dirty')
       /\ (EffectRun /\ scansInRow >= 1)
              => /\ scansInRow = 1
                 /\ emergencyIncidents' = emergencyIncidents
                 /\ ~dirty'
                 /\ ~effectPending']_vars

\* the chain has come to rest: the scan re-triggered by the additions of a scan
\* has run, the list it scanned is the committed one, nothing is queued
C25_Witness ==
    /\ scansInRow = 2
    /\ pc = "idle"
    /\ ~dirty
    /\ ~effectPending
    /\ intervals = {lastInterval}
    /\ intervalAt = 0
    /\ scanList = emergencyIncidents
    /\ rendered = emergencyIncidents
    /\ Len(emergencyIncidents) = Cardinality({ v \in 1..Len(mockVehicles) :
                                      mockVehicles[v].batteryHealth.requiresEmergencyResponse })
    /\ Len(emergencyIncidents) >= 1

\* C26: at most one scan interval timer is active at any time: every re-run of the
\* effect clears the interval of the previous run before it sets a new one, so a
\* timer tick never runs a scan with an incident list older than the last
\* committed one
C26_SingleIntervalTimer ==
    [][/\ Cardinality(intervals') <= 1
       /\ EffectRun => intervals' = {[list |-> rendered, at |-> now]}
       /\ TimerTick => \A interval \in intervals :
                           /\ interval.list = rendered
                           /\ interval.list = emergencyIncidents]_vars

\* the effect has run again after a click changed the list: the timer of the
\* earlier run is gone and the one timer left holds the list of the last render
C26_Witness ==
    /\ intervals = {[list |-> rendered, at |-> intervalAt]}
    /\ intervalAt > 0
    /\ now > intervalAt
    /\ Len(rendered) >= 1
    /\ pc = "idle"
    /\ ~dirty
    /\ ~effectPending
    /\ \E i \in 1..Len(rendered) : rendered[i].status = "responded"

\* the timestamps of responseDetails agree with the status of the incident
timestampsFitStatus(incident) ==
    CASE incident.status = "pending" -> DOMAIN incident.responseDetails = {}
      [] incident.status = "responded" -> DOMAIN incident.responseDetails = {"respondedAt"}
      [] incident.status = "resolved" ->
             /\ DOMAIN incident.responseDetails = {"respondedAt", "resolvedAt"}
             /\ incident.responseDetails.respondedAt <= incident.responseDetails.resolvedAt
      [] OTHER -> FALSE

\* C27: the response timestamps are consistent with the status in every reachable
\* state: a pending incident has neither respondedAt nor resolvedAt, a responded
\* incident has respondedAt and no resolvedAt, a resolved incident has both, with
\* respondedAt kept from the responded state and not later than resolvedAt
C27_TimestampsFitStatus ==
    [][/\ \A i \in 1..Len(emergencyIncidents') : timestampsFitStatus(emergencyIncidents'[i])
       /\ \A i \in 1..Len(emergencyIncidents) :
              (emergencyIncidents[i].status = "responded"
                   /\ emergencyIncidents'[i].status = "resolved")
                  => detail(emergencyIncidents'[i], "respondedAt")
                         = detail(emergencyIncidents[i], "respondedAt")]_vars

\* the collection holds a pending, a responded and a resolved incident, the
\* resolved one responded to before it was resolved
C27_Witness ==
    /\ \E i \in 1..Len(emergencyIncidents) : emergencyIncidents[i].status = "pending"
    /\ \E i \in 1..Len(emergencyIncidents) : emergencyIncidents[i].status = "responded"
    /\ \E i \in 1..Len(emergencyIncidents) :
           /\ emergencyIncidents[i].status = "resolved"
           /\ "respondedAt" \in DOMAIN emergencyIncidents[i].responseDetails
           /\ "resolvedAt" \in DOMAIN emergencyIncidents[i].responseDetails
           /\ emergencyIncidents[i].responseDetails.respondedAt
                  < emergencyIncidents[i].responseDetails.resolvedAt

\* C28: a status update changes only the status and the responseDetails of the
\* incidents whose id equals the id of the updated incident: their id, vehicleId,
\* timestamp and snapshot fields, every other incident, and the order and length
\* of the collection are unchanged; an update whose id matches no incident
\* changes nothing
C28_UpdateChangesOnlyStatus ==
    probe.op = "update" =>
        /\ Len(probe.next) = Len(probe.prev)
        /\ \A k \in 1..Len(probe.prev) :
               IF probe.prev[k].id = probe.updatedIncident.id
               THEN [probe.next[k] EXCEPT !.status = probe.prev[k].status,
                                          !.responseDetails = probe.prev[k].responseDetails]
                        = probe.prev[k]
               ELSE probe.next[k] = probe.prev[k]
        /\ (\A k \in 1..Len(probe.prev) : probe.prev[k].id # probe.updatedIncident.id)
               => probe.next = probe.prev

\* C29: every vehicle produced by generateVehicles has an integer batteryLevel in
\* 20..99 and a temperature of at least 20 and below 50, so the low-charge branch
\* of the emergency flag never fires: requiresEmergencyResponse holds exactly when
\* temperature > 47, which is exactly the condition of dangerousVehicles
C29_SynthesizedFlagIsTemperatureOnly ==
    probe.op = "vehicle" =>
        LET vehicle == probe.vehicle
            flag == vehicle.batteryHealth.requiresEmergencyResponse
        IN  /\ vehicle.batteryLevel \in 20..99
            /\ probe.drawn >= 20 * Resolution
            /\ probe.drawn < 50 * Resolution
            /\ ~(probe.drawn > HIGH_TEMP * Resolution /\ vehicle.batteryLevel < CRITICAL_BATTERY)
            /\ flag <=> (probe.drawn > CRITICAL_TEMP * Resolution)
            /\ flag <=> probe.dangerous

\* C29 (amended): every vehicle produced by generateVehicles has an integer
\* batteryLevel in 20..99 and a temperature of at least 20 and at most 50, so the
\* low-charge branch of the emergency flag never fires: requiresEmergencyResponse
\* holds exactly when temperature > 47, exactly the condition of dangerousVehicles
C29_SynthesizedFlagIsTemperatureOnly_Amended ==
    probe.op = "vehicle" =>
        LET vehicle == probe.vehicle
            flag == vehicle.batteryHealth.requiresEmergencyResponse
        IN  /\ vehicle.batteryLevel \in 20..99
            /\ probe.drawn >= 20 * Resolution
            /\ probe.drawn <= 50 * Resolution
            /\ ~(probe.drawn > HIGH_TEMP * Resolution /\ vehicle.batteryLevel < CRITICAL_BATTERY)
            /\ flag <=> (probe.drawn > CRITICAL_TEMP * Resolution)
            /\ flag <=> probe.dangerous

\* an overheating vehicle above HIGH_TEMP and not above CRITICAL_TEMP at the lowest
\* charge the synthesizer gives: the temperature half of the low-charge branch
\* holds and the vehicle is not flagged
C29_Witness ==
    /\ probe.op = "vehicle"
    /\ probe.drawn > HIGH_TEMP * Resolution
    /\ probe.drawn <= CRITICAL_TEMP * Resolution
    /\ probe.vehicle.batteryLevel = 20
    /\ ~probe.vehicle.batteryHealth.requiresEmergencyResponse
    /\ ~probe.dangerous

====
